---- MODULE Spec2Model ----
(***************************************************************************)
(* procon-gardener (src/main.go): the archive command.                     *)
(*                                                                         *)
(* archiveCmd is a sequential batch job: load the config, fetch the user's *)
(* submissions page by page, keep the accepted ones whose archive          *)
(* directory does not exist, sort them by time, and then for each one      *)
(* request its detail page, write each code block to a file and, when the  *)
(* repository has a .git directory, stage and commit that file.  The model *)
(* breaks archiveCmd at its input/output points: every action is the code  *)
(* between two of them, with each way the I/O can end.                     *)
(***************************************************************************)
EXTENDS Integers, Sequences, FiniteSets, TLC

(***************************************************************************)
(* Bounds of the model.                                                    *)
(***************************************************************************)
\* main.go:31 sets the page size to 500; the model scales it down so that
\* full pages, and so several requests, occur with a handful of submissions.
submissionsPerPage == 2
\* fetchSubmissions loops without bound; the model stops after MaxPages requests.
MaxPages == 3
\* The most ".linenums" elements a detail page holds.
MaxBlocks == 2
\* How many times the archive command is run in a row.
MaxRuns == 2
\* How many paths may be, before the first run, neither absent nor a directory.
MaxOdd == 1
\* The clock's grain in milliseconds: a step takes 0 or Tick.
Tick == 500

(***************************************************************************)
(* Program constants.                                                      *)
(***************************************************************************)
\* main.go:309, 1500 * time.Millisecond.
rateLimit == 1500

repoPath == "repo"
userEmail == "me@example.com"

NoFile == "<no file>"
Partial == "<partial>"
\* No request has begun yet in this run.
NoGap == 0 - 1

Min(a, b) == IF a < b THEN a ELSE b
Max(a, b) == IF a > b THEN a ELSE b
Range(s) == {s[i] : i \in DOMAIN s}

(***************************************************************************)
(* AtCoderSubmission (main.go:34-45).  Point and Length are never read by  *)
(* the archive command and are left out.                                   *)
(***************************************************************************)
Submission(id, epoch, problem, contest, user, language, res, exec) ==
    [ID |-> id, EpochSecond |-> epoch, ProblemID |-> problem,
     ContestID |-> contest, UserID |-> user, Language |-> language,
     Result |-> res, ExecutionTime |-> exec]

\* The submissions the judge may hold for the user.
Universe ==
    { Submission(1, 1, "abc100_a", "abc100", "u", "C++14 (GCC 5.4.1)", "AC", 10),
      Submission(2, 2, "abc100_b", "abc100", "u", "Python3 (3.8.2)", "WA", 20),
      Submission(3, 3, "abc101_a", "abc101", "u", "Text (cat)", "AC", 30) }

(***************************************************************************)
(* languageToFileName (main.go:70-140).  TLC cannot index a string, so     *)
(* Chars gives the characters of every label and table key.               *)
(***************************************************************************)
prefixes ==
    ("C++" :> ".cpp") @@
    ("Bash" :> ".sh") @@
    ("Common Lisp" :> ".lisp") @@
    ("Python" :> ".py") @@
    ("PyPy" :> ".py")

names ==
    ("C" :> ".c") @@
    ("C#" :> ".cs") @@
    ("Clojure" :> ".clj") @@
    ("D" :> ".d") @@
    ("Fortran" :> ".f08") @@
    ("Go" :> ".go") @@
    ("Haskell" :> ".hs") @@
    ("JavaScript" :> ".js") @@
    ("Java" :> ".java") @@
    ("OCaml" :> ".ml") @@
    ("Pascal" :> ".pas") @@
    ("Perl" :> ".pl") @@
    ("PHP" :> ".php") @@
    ("Ruby" :> ".rb") @@
    ("Scala" :> ".scala") @@
    ("Scheme" :> ".scm") @@
    ("Main.txt" :> ".txt") @@
    ("Visual Basic" :> ".vb") @@
    ("Objective-C" :> ".m") @@
    ("Swift" :> ".swift") @@
    ("Rust" :> ".rs") @@
    ("Sed" :> ".sed") @@
    ("Awk" :> ".awk") @@
    ("Brainfuck" :> ".bf") @@
    ("Standard ML" :> ".sml") @@
    ("Crystal" :> ".cr") @@
    ("F#" :> ".fs") @@
    ("Unlambda" :> ".unl") @@
    ("Lua" :> ".lua") @@
    ("LuaJIT" :> ".lua") @@
    ("MoonScript" :> ".moon") @@
    ("Ceylon" :> ".ceylon") @@
    ("Julia" :> ".jl") @@
    ("Octave" :> ".m") @@
    ("Nim" :> ".nim") @@
    ("TypeScript" :> ".ts") @@
    ("Perl6" :> ".p6") @@
    ("Kotlin" :> ".kt") @@
    ("COBOL" :> ".cob")

Chars ==
    ("C++" :> <<"C", "+", "+">>) @@
    ("Bash" :> <<"B", "a", "s", "h">>) @@
    ("Common Lisp" :> <<"C", "o", "m", "m", "o", "n", " ", "L", "i", "s", "p">>) @@
    ("Python" :> <<"P", "y", "t", "h", "o", "n">>) @@
    ("PyPy" :> <<"P", "y", "P", "y">>) @@
    ("C" :> <<"C">>) @@
    ("C#" :> <<"C", "#">>) @@
    ("Clojure" :> <<"C", "l", "o", "j", "u", "r", "e">>) @@
    ("D" :> <<"D">>) @@
    ("Fortran" :> <<"F", "o", "r", "t", "r", "a", "n">>) @@
    ("Go" :> <<"G", "o">>) @@
    ("Haskell" :> <<"H", "a", "s", "k", "e", "l", "l">>) @@
    ("JavaScript" :> <<"J", "a", "v", "a", "S", "c", "r", "i", "p", "t">>) @@
    ("Java" :> <<"J", "a", "v", "a">>) @@
    ("OCaml" :> <<"O", "C", "a", "m", "l">>) @@
    ("Pascal" :> <<"P", "a", "s", "c", "a", "l">>) @@
    ("Perl" :> <<"P", "e", "r", "l">>) @@
    ("PHP" :> <<"P", "H", "P">>) @@
    ("Ruby" :> <<"R", "u", "b", "y">>) @@
    ("Scala" :> <<"S", "c", "a", "l", "a">>) @@
    ("Scheme" :> <<"S", "c", "h", "e", "m", "e">>) @@
    ("Main.txt" :> <<"M", "a", "i", "n", ".", "t", "x", "t">>) @@
    ("Visual Basic" :> <<"V", "i", "s", "u", "a", "l", " ", "B", "a", "s", "i", "c">>) @@
    ("Objective-C" :> <<"O", "b", "j", "e", "c", "t", "i", "v", "e", "-", "C">>) @@
    ("Swift" :> <<"S", "w", "i", "f", "t">>) @@
    ("Rust" :> <<"R", "u", "s", "t">>) @@
    ("Sed" :> <<"S", "e", "d">>) @@
    ("Awk" :> <<"A", "w", "k">>) @@
    ("Brainfuck" :> <<"B", "r", "a", "i", "n", "f", "u", "c", "k">>) @@
    ("Standard ML" :> <<"S", "t", "a", "n", "d", "a", "r", "d", " ", "M", "L">>) @@
    ("Crystal" :> <<"C", "r", "y", "s", "t", "a", "l">>) @@
    ("F#" :> <<"F", "#">>) @@
    ("Unlambda" :> <<"U", "n", "l", "a", "m", "b", "d", "a">>) @@
    ("Lua" :> <<"L", "u", "a">>) @@
    ("LuaJIT" :> <<"L", "u", "a", "J", "I", "T">>) @@
    ("MoonScript" :> <<"M", "o", "o", "n", "S", "c", "r", "i", "p", "t">>) @@
    ("Ceylon" :> <<"C", "e", "y", "l", "o", "n">>) @@
    ("Julia" :> <<"J", "u", "l", "i", "a">>) @@
    ("Octave" :> <<"O", "c", "t", "a", "v", "e">>) @@
    ("Nim" :> <<"N", "i", "m">>) @@
    ("TypeScript" :> <<"T", "y", "p", "e", "S", "c", "r", "i", "p", "t">>) @@
    ("Perl6" :> <<"P", "e", "r", "l", "6">>) @@
    ("Kotlin" :> <<"K", "o", "t", "l", "i", "n">>) @@
    ("COBOL" :> <<"C", "O", "B", "O", "L">>) @@
    ("C++14 (GCC 5.4.1)" :> <<"C", "+", "+", "1", "4", " ", "(", "G", "C", "C", " ", "5", ".", "4", ".", "1", ")">>) @@
    ("Python3 (3.8.2)" :> <<"P", "y", "t", "h", "o", "n", "3", " ", "(", "3", ".", "8", ".", "2", ")">>) @@
    ("Rust (1.42.0)" :> <<"R", "u", "s", "t", " ", "(", "1", ".", "4", "2", ".", "0", ")">>) @@
    ("Text (cat)" :> <<"T", "e", "x", "t", " ", "(", "c", "a", "t", ")">>)

\* strings.Split(language, "(")[0]
BeforeParen(cs) ==
    LET stops == {i \in DOMAIN cs : cs[i] = "("}
    IN  IF stops = {} THEN cs
        ELSE SubSeq(cs, 1, (CHOOSE i \in stops : \A j \in stops : i <= j) - 1)

\* strings.TrimSpace
TrimSpace(cs) ==
    LET ink == {i \in DOMAIN cs : cs[i] # " "}
    IN  IF ink = {} THEN <<>>
        ELSE SubSeq(cs, CHOOSE i \in ink : \A j \in ink : i <= j,
                        CHOOSE i \in ink : \A j \in ink : i >= j)

\* strings.HasPrefix
HasPrefix(cs, p) == Len(p) <= Len(cs) /\ SubSeq(cs, 1, Len(p)) = p

languageToFileName(language) ==
    LET name == "Main"
        l == TrimSpace(BeforeParen(Chars[language]))
        ps == {p \in DOMAIN prefixes : HasPrefix(l, Chars[p])}
        ns == {n \in DOMAIN names : Chars[n] = l}
    IN  IF ps # {} THEN name \o prefixes[CHOOSE p \in ps : TRUE]
        ELSE IF ns # {} THEN name \o names[CHOOSE n \in ns : TRUE]
        ELSE name \o ".txt"

(***************************************************************************)
(* The state.                                                              *)
(***************************************************************************)
VARIABLES
    remote,     \* the judge's submissions of the user, oldest first
    mock,       \* a mocked API's pages, one per request, or <<>> for the judge's API
    dirs,       \* what os.Stat finds at each archive directory path and at repo/.git
    disk0,      \* dirs as it was before the first run
    files,      \* the content of each archive file, or NoFile
    staged,     \* files added to the git index and not yet committed
    commits,    \* the commits of the repository, oldest first
    run,        \* which run of the archive command this is
    outcomes,   \* how the earlier runs ended: "done" or "failed"
    pc,         \* where archiveCmd is
    err,        \* the error archiveCmd returned, or "none"
    fromSecond, \* fetchSubmissions: the watermark
    requests,   \* fetchSubmissions: the from_second of every request sent
    pages,      \* fetchSubmissions: the pages received
    result,     \* fetchSubmissions: the records appended so far
    accepted,   \* ss after filterNotAC (main.go:299)
    unarchived, \* ss after filterDirsExist (main.go:300)
    ss,         \* ss after sort.Slice (main.go:301)
    idx,        \* the position in ss of the outer loop
    blocks,     \* the texts of the detail page's .linenums elements
    bi,         \* the position in blocks of the inner loop
    clock,      \* elapsed times in ms, see NewClock
    trace,      \* the run's page requests, file writes and commits, in order
    seen,       \* per submission, the block list its detail page has returned:
                \* {} before any, BlockLists once two answers differed
    abortedAt,  \* the submission IDs at which a run failed inside the loop
    html,       \* the block lists a detail page may hold
    durations   \* how long a step may take, in ms

vars == <<remote, mock, dirs, disk0, files, staged, commits, run, outcomes, pc, err,
          fromSecond, requests, pages, result, accepted, unarchived, ss, idx,
          blocks, bi, clock, trace, seen, abortedAt, html,
          durations>>

(***************************************************************************)
(* The file system.  A path is the tuple of its components.                *)
(***************************************************************************)
\* directoryPath (main.go:275-277)
directoryPath(repo, s) == <<repo, s.ContestID, s.ProblemID, s.ID>>

\* filepath.Join(archiveDirPath, fileName) (main.go:198, 337)
filePath(s) == Append(directoryPath(repoPath, s), languageToFileName(s.Language))

\* filepath.Join(config.Atcoder.RepositoryPath, ".git") (main.go:342)
gitPath == <<repoPath, ".git">>

\* What os.Stat finds at a path: nothing, a directory, a regular file, or an
\* error other than "does not exist" (no permission, a file as a parent).
Kinds == {"absent", "dir", "file", "staterr"}

Paths == {directoryPath(repoPath, s) : s \in Universe} \cup {gitPath}
FilePaths == {filePath(s) : s \in Universe}

\* dirExists taking whatever is at the path for a directory.
dirExists_AnyKind(path) ==
    CASE dirs[path] = "absent" -> "false"
      [] dirs[path] = "staterr" -> "panic"
      [] OTHER -> "true"

\* dirExists (main.go:47-53): os.Stat's error is looked at only when it is
\* "not exist"; on any other error info is nil and info.IsDir() panics.
dirExists(path) ==
    CASE dirs[path] = "absent" -> "false"
      [] dirs[path] = "staterr" -> "panic"
      [] dirs[path] = "dir" -> "true"
      [] OTHER -> "false"

(***************************************************************************)
(* The submissions API, as fetchSubmissionsOnce (main.go:221-245) sees it. *)
(* The judge's API answers request number n with the records from          *)
(* from_second on, oldest first, a page at most; a mocked API answers it   *)
(* with its n-th page, whatever from_second is.                            *)
(***************************************************************************)
pageFor(from, n) ==
    LET Late(s) == s.EpochSecond >= from
        late == SelectSeq(remote, Late)
    IN  IF mock # <<>>
        THEN IF n <= Len(mock) THEN mock[n] ELSE <<>>
        ELSE SubSeq(late, 1, Min(Len(late), submissionsPerPage))

\* The watermark as the greatest epoch-second of the page.
nextFromSecond_Max(page) ==
    CHOOSE e \in {s.EpochSecond : s \in Range(page)} :
        \A s \in Range(page) : s.EpochSecond <= e

\* main.go:260
nextFromSecond(page) == page[Len(page)].EpochSecond

(***************************************************************************)
(* The filters and the sort.                                               *)
(***************************************************************************)
RECURSIVE filterNotACFrom(_, _, _)
filterNotACFrom(list, i, acc) ==
    IF i > Len(list) THEN acc
    ELSE filterNotACFrom(list, i + 1,
            IF list[i].Result = "AC" THEN Append(acc, list[i]) ELSE acc)

\* filterNotAC without its filter.
filterNotAC_All(list) == list

\* filterNotAC (main.go:265-273)
filterNotAC(list) == filterNotACFrom(list, 1, <<>>)

RECURSIVE filterDirsExistFrom(_, _, _, _)
filterDirsExistFrom(repo, list, i, acc) ==
    IF i > Len(list) THEN acc
    ELSE filterDirsExistFrom(repo, list, i + 1,
            IF dirExists(directoryPath(repo, list[i])) # "true"
            THEN Append(acc, list[i]) ELSE acc)

\* filterDirsExist without its filter.
filterDirsExist_Nothing(repo, list) == list

\* filterDirsExist with the test turned round.
filterDirsExist_KeepExisting(repo, list) ==
    LET Exists(s) == dirExists(directoryPath(repo, s)) = "true"
    IN  SelectSeq(list, Exists)

\* filterDirsExist (main.go:279-287); it panics when dirExists does.
filterDirsExist(repo, list) == filterDirsExistFrom(repo, list, 1, <<>>)

filterPanics(repo, list) ==
    \E i \in DOMAIN list : dirExists(directoryPath(repo, list[i])) = "panic"

\* The ways to put record s into the ascending sequence q and keep it ascending.
insertByEpoch(q, s) ==
    {SubSeq(q, 1, j) \o <<s>> \o SubSeq(q, j + 1, Len(q)) : j \in
        {j \in 0..Len(q) :
            /\ \A i \in 1..j : q[i].EpochSecond <= s.EpochSecond
            /\ \A i \in (j + 1)..Len(q) : s.EpochSecond <= q[i].EpochSecond}}

RECURSIVE sortedFrom(_, _, _)
sortedFrom(list, i, qs) ==
    IF i > Len(list) THEN qs
    ELSE sortedFrom(list, i + 1, UNION {insertByEpoch(q, list[i]) : q \in qs})

\* sort.Slice (main.go:301-303) is not stable: any order of the same records
\* that ascends by EpochSecond may come out.
sortByEpoch(list) == sortedFrom(list, 1, {<<>>})

(***************************************************************************)
(* Time.  clock.sinceStart is the time since startTime was set,            *)
(* clock.sinceReq the time since the last detail-page request began (NoGap *)
(* before the first), clock.gap the value of sinceReq when the last request*)
(* began, and clock.scrape the time since the run's first request began.   *)
(* The first two stop counting at rateLimit, scrape at rateLimit for each  *)
(* submission of the run.                                                  *)
(***************************************************************************)
NewClock == [sinceStart |-> 0, sinceReq |-> NoGap, gap |-> NoGap, scrape |-> 0]

pass(c, d, n) ==
    [c EXCEPT !.sinceStart = Min(@ + d, rateLimit),
              !.sinceReq = IF @ = NoGap THEN NoGap ELSE Min(@ + d, rateLimit),
              !.scrape = IF c.sinceReq = NoGap THEN 0 ELSE Min(@ + d, rateLimit * n)]

\* No sleep at all.
sleepDuration_None(elapsed) == 0

\* time.Until(startTime.Add(1500 * time.Millisecond)) (main.go:309);
\* time.Sleep returns at once when it is not positive.
sleepDuration(elapsed) == Max(0, rateLimit - elapsed)

\* The moment http.Get is called (main.go:313).
beginRequest(c) == [c EXCEPT !.gap = c.sinceReq, !.sinceReq = 0]

\* startTime = time.Now() (main.go:318)
setStartTime(c) == [c EXCEPT !.sinceStart = 0]

(***************************************************************************)
(* The initial states: any API content, any state of the archive paths and *)
(* of repo/.git, no archive file yet, the first run about to start.        *)
(***************************************************************************)
\* The sequences of distinct submissions, at most n long.
Distinct(n) ==
    {q \in UNION {[1..m -> Universe] : m \in 0..Min(n, Cardinality(Universe))} :
        \A i, j \in DOMAIN q : q[i] = q[j] => i = j}

\* What the judge may hold: submissions in ascending time order.
Remotes ==
    {q \in Distinct(Cardinality(Universe)) :
        \A i, j \in DOMAIN q : i < j => q[i].EpochSecond <= q[j].EpochSecond}

\* What a mocked API may answer: full pages, then a page that is not full.
Scripts ==
    {q \in UNION {[1..m -> Distinct(submissionsPerPage)] : m \in 1..MaxPages} :
        \A k \in DOMAIN q : Len(q[k]) = submissionsPerPage <=> k < Len(q)}

Codes == {"", "int main(){}"}
BlockLists == UNION {[1..n -> Codes] : n \in 0..MaxBlocks}

\* The state before the first run, but for the API, the disk and the clock's
\* grain.
Start ==
    /\ disk0 = dirs
    /\ files = [f \in FilePaths |-> NoFile]
    /\ staged = {}
    /\ commits = <<>>
    /\ run = 1
    /\ outcomes = <<>>
    /\ pc = "load"
    /\ err = "none"
    /\ fromSecond = 0
    /\ requests = <<>>
    /\ pages = <<>>
    /\ result = <<>>
    /\ accepted = <<>>
    /\ unarchived = <<>>
    /\ ss = <<>>
    /\ idx = 0
    /\ blocks = <<>>
    /\ bi = 0
    /\ clock = NewClock
    /\ trace = <<>>
    /\ seen = [s \in Universe |-> {}]
    /\ abortedAt = {}

\* The clock decides no guard, so the steps other than the sleep may be taken
\* to last no time: the states reached differ in the clock alone.
Init ==
    /\ remote \in Remotes
    /\ mock = <<>>
    /\ dirs \in {d \in [Paths -> Kinds] :
                    Cardinality({p \in Paths : d[p] \notin {"absent", "dir"}}) <= MaxOdd}
    /\ html = BlockLists
    /\ durations = {0}
    /\ Start

\* A disk with no archive directory yet, with or without repo/.git.
Fresh ==
    {[p \in Paths |-> IF p = gitPath THEN g ELSE "absent"] : g \in {"absent", "dir"}}

\* Every step takes 0 or Tick ms, on a fresh disk.
InitTimed ==
    /\ remote \in Remotes
    /\ mock = <<>>
    /\ dirs \in Fresh
    /\ html = BlockLists
    /\ durations = {0, Tick}
    /\ Start

\* The judge's API, on a fresh disk.
InitRerun ==
    /\ remote \in Remotes
    /\ mock = <<>>
    /\ dirs \in Fresh
    /\ html = BlockLists
    /\ durations = {0}
    /\ Start

\* A mocked API, on a fresh disk, every detail page holding one code block.
InitMock ==
    /\ remote = <<>>
    /\ mock \in Scripts
    /\ dirs \in Fresh
    /\ html = {<<"int main(){}">>}
    /\ durations = {0}
    /\ Start

env == <<remote, mock, disk0, run, outcomes, html, durations>>
fetchVars == <<fromSecond, requests, pages, result>>
listVars == <<accepted, unarchived, ss>>
gitVars == <<staged, commits>>

\* The error is noted and archiveCmd goes on.
Fail_KeepGoing(e) ==
    /\ pc' = pc
    /\ err' = e
    /\ abortedAt' = abortedAt

\* archiveCmd returns e (or panics): nothing is undone.
Fail(e) ==
    /\ pc' = "failed"
    /\ err' = e
    /\ abortedAt' = IF pc \in {"request", "block", "commit"}
                    THEN abortedAt \cup {ss[idx].ID} ELSE abortedAt

\* The end of the inner loop's body: the next block, else the next submission,
\* else return nil (main.go:328, 308, 378).
Continue ==
    /\ err' = err
    /\ abortedAt' = abortedAt
    /\ IF bi < Len(blocks)
       THEN /\ bi' = bi + 1
            /\ idx' = idx
            /\ pc' = "block"
       ELSE /\ bi' = 0
            /\ idx' = idx + 1
            /\ pc' = IF idx < Len(ss) THEN "request" ELSE "done"

\* loadConfig (main.go:290-293)
LoadConfig ==
    /\ pc = "load"
    /\ \/ Fail("config")
       \/ /\ pc' = "fetch"
          /\ UNCHANGED <<err, abortedAt>>
    /\ UNCHANGED <<env, dirs, files, gitVars, fetchVars, listVars, idx, blocks,
                   bi, clock, trace, seen>>

\* One turn of fetchSubmissions' loop (main.go:250-261).
FetchPage ==
    /\ pc = "fetch"
    /\ Len(requests) < MaxPages
    /\ requests' = Append(requests, fromSecond)
    /\ \/ /\ Fail("fetch")
          /\ UNCHANGED <<fromSecond, pages, result>>
       \/ LET page == pageFor(fromSecond, Len(requests) + 1)
          IN  /\ pages' = Append(pages, page)
              /\ result' = result \o page
              /\ IF Len(page) < submissionsPerPage
                 THEN /\ pc' = "filter"
                      /\ fromSecond' = fromSecond
                 ELSE /\ pc' = "fetch"
                      /\ fromSecond' = nextFromSecond(page)
              /\ UNCHANGED <<err, abortedAt>>
    /\ UNCHANGED <<env, dirs, files, gitVars, listVars, idx, blocks, bi, clock,
                   trace, seen>>

\* main.go:299-306
FilterAndSort ==
    /\ pc = "filter"
    /\ LET acc == filterNotAC(result)
       IN  IF filterPanics(repoPath, acc)
           THEN /\ Fail("panic")
                /\ UNCHANGED <<listVars, idx, clock>>
           ELSE \E sorted \in sortByEpoch(filterDirsExist(repoPath, acc)) :
                   /\ accepted' = acc
                   /\ unarchived' = filterDirsExist(repoPath, acc)
                   /\ ss' = sorted
                   /\ idx' = 1
                   /\ clock' = NewClock
                   /\ pc' = IF sorted = <<>> THEN "done" ELSE "request"
                   /\ UNCHANGED <<err, abortedAt>>
    /\ UNCHANGED <<env, dirs, files, gitVars, fetchVars, blocks, bi, trace, seen>>

\* main.go:308-327: sleep, request the detail page, parse it, find the blocks.
Request ==
    /\ pc = "request"
    /\ \E late \in durations, took \in durations :
         LET slept == pass(clock, sleepDuration(clock.sinceStart) + late, Len(ss))
             back == pass(beginRequest(slept), took, Len(ss))
         IN  /\ trace' = Append(trace, <<"req", idx>>)
             /\ \/ /\ Fail("request")
                   /\ clock' = back
                   /\ UNCHANGED <<blocks, bi, idx, seen>>
                \/ /\ Fail("parse")
                   /\ clock' = setStartTime(back)
                   /\ UNCHANGED <<blocks, bi, idx, seen>>
                \/ \E found \in html :
                      /\ clock' = setStartTime(back)
                      /\ blocks' = found
                      /\ seen' = [seen EXCEPT ![ss[idx]] =
                                    IF @ \subseteq {found} THEN {found} ELSE BlockLists]
                      /\ IF found = <<>>
                         THEN /\ bi' = 0
                              /\ idx' = idx + 1
                              /\ pc' = IF idx < Len(ss) THEN "request" ELSE "done"
                         ELSE /\ bi' = 1
                              /\ idx' = idx
                              /\ pc' = "block"
                      /\ UNCHANGED <<err, abortedAt>>
    /\ UNCHANGED <<env, dirs, files, gitVars, fetchVars, listVars>>

\* archiveFile returning nil when os.WriteFile fails.
archiveFile_IgnoreWriteError(code, s) ==
    LET path == directoryPath(repoPath, s)
    IN  \/ /\ dirs[path] # "dir"
           /\ Fail("mkdir")
           /\ UNCHANGED <<dirs, files, trace>>
        \/ /\ dirs[path] \in {"absent", "dir"}
           /\ dirs' = [dirs EXCEPT ![path] = "dir"]
           /\ files' \in {files, [files EXCEPT ![filePath(s)] = Partial],
                          [files EXCEPT ![filePath(s)] = code]}
           /\ trace' = Append(trace, <<"write", idx, bi>>)
           /\ pc' = "commit"
           /\ UNCHANGED <<err, abortedAt>>

\* archiveFile (main.go:193-202): os.MkdirAll, then os.WriteFile.  A failed
\* WriteFile leaves the file as it was, or created and cut short.
archiveFile(code, s) ==
    LET path == directoryPath(repoPath, s)
    IN  \/ /\ dirs[path] # "dir"
           /\ Fail("mkdir")
           /\ UNCHANGED <<dirs, files, trace>>
        \/ /\ dirs[path] \in {"absent", "dir"}
           /\ dirs' = [dirs EXCEPT ![path] = "dir"]
           /\ \/ /\ Fail("write")
                 /\ files' \in {files, [files EXCEPT ![filePath(s)] = Partial]}
                 /\ UNCHANGED trace
              \/ /\ files' = [files EXCEPT ![filePath(s)] = code]
                 /\ trace' = Append(trace, <<"write", idx, bi>>)
                 /\ pc' = "commit"
                 /\ UNCHANGED <<err, abortedAt>>

\* main.go:329-339
Block ==
    /\ pc = "block"
    /\ IF blocks[bi] = ""
       THEN /\ Fail("empty")
            /\ UNCHANGED <<dirs, files, trace, clock>>
       ELSE /\ archiveFile(blocks[bi], ss[idx])
            /\ \E took \in durations : clock' = pass(clock, took, Len(ss))
    /\ UNCHANGED <<env, gitVars, fetchVars, listVars, idx, blocks, bi, seen>>

\* The commit of main.go:365-372.
commitOf(s) ==
    [file |-> SubSeq(filePath(s), 2, 5),
     message |-> <<s.ContestID, s.ProblemID, s.ExecutionTime, s.ID>>,
     name |-> s.UserID, email |-> userEmail, when |-> s.EpochSecond]

\* main.go:340-376
Commit ==
    /\ pc = "commit"
    /\ \E took \in durations : clock' = pass(clock, took, Len(ss))
    /\ CASE dirExists(gitPath) = "panic" ->
              /\ Fail("panic")
              /\ UNCHANGED <<gitVars, trace, idx, bi>>
         [] dirExists(gitPath) = "false" ->
              /\ Continue
              /\ UNCHANGED <<gitVars, trace>>
         [] OTHER ->
              \/ /\ Fail("open")
                 /\ UNCHANGED <<gitVars, trace, idx, bi>>
              \/ /\ Fail("stage")
                 /\ UNCHANGED <<gitVars, trace, idx, bi>>
              \/ /\ Fail("commit")
                 /\ staged' = staged \cup {filePath(ss[idx])}
                 /\ UNCHANGED <<commits, trace, idx, bi>>
              \/ /\ Continue
                 /\ staged' = {}
                 /\ commits' = Append(commits, commitOf(ss[idx]))
                 /\ trace' = Append(trace, <<"commit", idx, bi>>)
    /\ UNCHANGED <<env, dirs, files, fetchVars, listVars, blocks, seen>>

\* The user runs the archive command again.
StartRun ==
    /\ pc \in {"done", "failed"}
    /\ run < MaxRuns
    /\ run' = run + 1
    /\ outcomes' = Append(outcomes, pc)
    /\ pc' = "load"
    /\ err' = "none"
    /\ fromSecond' = 0
    /\ requests' = <<>>
    /\ pages' = <<>>
    /\ result' = <<>>
    /\ accepted' = <<>>
    /\ unarchived' = <<>>
    /\ ss' = <<>>
    /\ idx' = 0
    /\ blocks' = <<>>
    /\ bi' = 0
    /\ clock' = NewClock
    /\ trace' = <<>>
    /\ UNCHANGED <<remote, mock, disk0, html, durations, dirs, files, gitVars, seen, abortedAt>>

\* One run of the archive command.
Next ==
    \/ LoadConfig
    \/ FetchPage
    \/ FilterAndSort
    \/ Request
    \/ Block
    \/ Commit

\* Runs of the archive command, one after the other.
NextRerun ==
    \/ LoadConfig
    \/ FetchPage
    \/ FilterAndSort
    \/ Request
    \/ Block
    \/ Commit
    \/ StartRun

\* One run, the judge's API, any disk, any detail page.
Spec == Init /\ [][Next]_vars

\* One run with the clock running.
SpecTimed == InitTimed /\ [][Next]_vars

\* One run against a mocked API.
SpecMock == InitMock /\ [][Next]_vars

\* Up to MaxRuns runs, each after the one before has ended.
SpecRerun == InitRerun /\ [][NextRerun]_vars

(***************************************************************************)
(* What the claims speak of.                                               *)
(***************************************************************************)
\* FilterAndSort has run in this run.
Filtered == idx >= 1

\* Just after FilterAndSort: the disk is still as the filters saw it.
PostFilter == Filtered /\ trace = <<>> /\ err = "none"

\* out is list without the records that fail Keep, in list's order.
KeptExactly(out, list, Keep(_)) ==
    LET kept == {i \in DOMAIN list : Keep(list[i])}
    IN  /\ Len(out) = Cardinality(kept)
        /\ \A i \in kept : out[Cardinality({k \in kept : k <= i})] = list[i]

IsAC(s) == s.Result = "AC"
NoDirYet(s) == dirs[directoryPath(repoPath, s)] # "dir"

Events(kind) == {k \in DOMAIN trace : trace[k][1] = kind}
SubmissionOf(k) == ss[trace[k][2]]

\* fetchSubmissions has returned its result in this run.
FetchReturned == pages # <<>> /\ Len(pages[Len(pages)]) < submissionsPerPage

RECURSIVE Flatten(_)
Flatten(ps) == IF ps = <<>> THEN <<>> ELSE Head(ps) \o Flatten(Tail(ps))

MaxEpoch(ps) ==
    LET es == {s.EpochSecond : s \in Range(Flatten(ps))}
    IN  CHOOSE e \in es : \A f \in es : f <= e

EachPageBrought ==
    /\ Len(requests) = Len(pages)
    /\ result = Flatten(pages)
    /\ requests[1] = 0
    /\ \A k \in 1..(Len(pages) - 1) : Len(pages[k]) = submissionsPerPage

\* The API is the judge's, which lists submissions oldest first.
JudgeAPI == mock = <<>>

PagesStable == \A s \in Universe : Cardinality(seen[s]) <= 1

Written(s) == files[filePath(s)] \notin {NoFile, Partial}
Committed(s) == \E k \in DOMAIN commits : commits[k].file = SubSeq(filePath(s), 2, 5)
UnderGit == dirs[gitPath] = "dir"

\* The accepted submissions the filter of this run skipped although their
\* directory did not exist before the first run.
SkippedWork ==
    {s \in Range(accepted) :
        /\ s \notin Range(unarchived)
        /\ disk0[directoryPath(repoPath, s)] = "absent"}

(***************************************************************************)
(* C1                                                                      *)
(***************************************************************************)
\* C1 (as claimed): a run that follows another run of the archive command
\* writes no file and creates no commit.
C1_SecondRunIdle ==
    run >= 2 => Events("write") = {} /\ Events("commit") = {}

\* C1 (amended): a run that follows a run which returned without error, every
\* detail page having returned the same code blocks each time it was
\* requested, writes no file and creates no commit.
C1_SecondRunIdleAfterSuccess ==
    (run >= 2 /\ outcomes[run - 1] = "done" /\ PagesStable)
        => Events("write") = {} /\ Events("commit") = {}

C1_Witness ==
    /\ run = 2 /\ outcomes[1] = "done" /\ pc = "done" /\ PagesStable
    /\ \E s \in Range(accepted) : Written(s) /\ Committed(s)
    /\ Events("req") # {}

(***************************************************************************)
(* C2                                                                      *)
(***************************************************************************)
\* C2 (as claimed): when fetchSubmissions returns, it has sent one request per
\* page, its result is the pages in request order, the first from_second was 0
\* and every later one the greatest epoch-second received before it.
C2_FromSecondIsMax ==
    FetchReturned =>
        /\ EachPageBrought
        /\ \A k \in 2..Len(requests) : requests[k] = MaxEpoch(SubSeq(pages, 1, k - 1))

\* C2 (amended): ... and every later from_second the epoch-second of the last
\* record of the page received just before it.
C2_FromSecondIsLast ==
    FetchReturned =>
        /\ EachPageBrought
        /\ \A k \in 2..Len(requests) :
              requests[k] = pages[k - 1][Len(pages[k - 1])].EpochSecond

C2_Witness ==
    /\ FetchReturned
    /\ Len(pages) >= 3
    /\ Len(result) = 2 * submissionsPerPage + Len(pages[3])
    /\ requests[2] # MaxEpoch(SubSeq(pages, 1, 1))

C4_NoFileOnEmptyBlock ==
    err = "empty" => \A k \in Events("write") : trace[k][2] # idx

(***************************************************************************)
(* C5                                                                      *)
(***************************************************************************)
\* C5: a failing step ends the run at once with its error; nothing has been
\* requested, written or committed for a later submission, nothing is after,
\* and what was written and committed before stays.
C5_AbortOnFirstFailure ==
    [][ /\ err' # "none" =>
            /\ pc' = "failed"
            /\ \A k \in DOMAIN trace' : trace'[k][2] <= idx'
        /\ (err = "none" /\ err' # "none") =>
            /\ \A k \in DOMAIN trace : trace'[k] = trace[k]
            /\ \A p \in Paths : dirs[p] = "dir" => dirs'[p] = "dir"
            /\ \A f \in FilePaths : files[f] # NoFile => files'[f] # NoFile
            /\ commits' = commits
        /\ (err # "none" /\ run' = run) =>
            UNCHANGED <<trace, dirs, files, staged, commits>>
      ]_vars

C5_Witness ==
    /\ pc = "failed"
    /\ idx < Len(ss)
    /\ \E k \in Events("commit") : trace[k][2] < idx
    /\ \E s \in Range(ss) : Written(s) /\ Committed(s)

(***************************************************************************)
(* C6                                                                      *)
(***************************************************************************)
\* C6: a detail-page request begins at least 1.5 s after the one before it
\* began, so the N-th begins at least 1.5 * (N - 1) s after the first.
C6_RateLimit ==
    /\ clock.gap = NoGap \/ clock.gap >= rateLimit
    /\ Events("req") # {} =>
          clock.scrape >= rateLimit * (Cardinality(Events("req")) - 1)

C6_Witness ==
    /\ Cardinality(Events("req")) >= 3
    /\ clock.gap >= rateLimit
    /\ clock.scrape > rateLimit * 2
    /\ Tick \in durations

(***************************************************************************)
(* C7                                                                      *)
(***************************************************************************)
\* C7: filterNotAC returns exactly the records whose Result is "AC", in their
\* order, and no other submission is requested, written or committed.
C7_KeepAccepted ==
    Filtered =>
        /\ KeptExactly(accepted, result, IsAC)
        /\ \A k \in DOMAIN trace : IsAC(SubmissionOf(k))
        /\ \A s \in Universe : ~IsAC(s) => ~Written(s) /\ ~Committed(s)

C7_Witness ==
    /\ Filtered
    /\ \E i \in DOMAIN result : ~IsAC(result[i]) /\ i < Len(result)
    /\ Len(accepted) >= 2
    /\ Events("commit") # {}

(***************************************************************************)
(* C8                                                                      *)
(***************************************************************************)
\* C8: with a .git directory, each file write is followed at once by the one
\* commit of that file, so a run that ends without error has as many commits
\* as writes; without one, nothing is staged or committed.
C8_OneCommitPerFile ==
    IF UnderGit
    THEN /\ \A k \in Events("write") :
              IF k = Len(trace) THEN pc \in {"commit", "failed"}
              ELSE trace[k + 1] = <<"commit", trace[k][2], trace[k][3]>>
         /\ \A k \in Events("commit") :
              /\ k > 1
              /\ trace[k - 1] = <<"write", trace[k][2], trace[k][3]>>
              /\ Committed(SubmissionOf(k))
         /\ pc = "done" =>
              Cardinality(Events("commit")) = Cardinality(Events("write"))
    ELSE Events("commit") = {} /\ commits = <<>> /\ staged = {}

C8_Witness ==
    /\ UnderGit
    /\ pc = "done"
    /\ \E k \in Events("commit") : trace[k][3] = 2
    /\ Cardinality(Events("commit")) >= 3

(***************************************************************************)
(* C9                                                                      *)
(***************************************************************************)
\* C9 (as claimed): after a failed run, every accepted submission the next
\* run's filter skips has its file written and, under git, committed.
C9_SkippedIsComplete ==
    (run >= 2 /\ outcomes[run - 1] = "failed" /\ PostFilter) =>
        \A s \in SkippedWork : Written(s) /\ (UnderGit => Committed(s))

\* C9 (amended): ... has its file written and, under git, committed, unless a
\* run failed while it was working on that submission.
C9_SkippedIsCompleteUnlessAborted ==
    (run >= 2 /\ outcomes[run - 1] = "failed" /\ PostFilter) =>
        \A s \in SkippedWork :
            s.ID \notin abortedAt => Written(s) /\ (UnderGit => Committed(s))

C9_Witness ==
    /\ run = 2 /\ outcomes[1] = "failed" /\ PostFilter
    /\ \E s \in SkippedWork : s.ID \notin abortedAt /\ UnderGit
    /\ \E s \in SkippedWork : s.ID \in abortedAt /\ ~Written(s)

(***************************************************************************)
(* C10                                                                     *)
(***************************************************************************)
\* C10: with the judge's API, which lists submissions oldest first, no
\* submission ID is requested twice in one run.
C10_AtMostOnce ==
    JudgeAPI =>
        \A j, k \in Events("req") : j # k => SubmissionOf(j).ID # SubmissionOf(k).ID
====
